---- MODULE Spec2Model ----
(***************************************************************************)
(* Model of app.py: the DfuApi object exposed to the WebView.              *)
(*                                                                         *)
(*   start_dfu     admission under _progress_lock, a background thread     *)
(*                 running run() via run_and_capture(), thread.join(),     *)
(*                 then the result or the exception handed to the caller   *)
(*   get_progress  a copy of _progress taken under _progress_lock          *)
(*   _set_progress the percentage defaulting and rounding, then the        *)
(*                 rebinding of _progress under _progress_lock             *)
(*   load_config   DEFAULT_ADVANCED merged with config.json                *)
(*                                                                         *)
(* Threads: caller threads (the WebView's js_api calls of start_dfu), one  *)
(* job thread per admitted call, and poller threads calling get_progress.  *)
(* A percentage is held in tenths: 500 stands for 50.0.                    *)
(***************************************************************************)
EXTENDS Integers, Sequences, FiniteSets, TLC

\* ------------------------------------------------------------------ bounds

NumCallers == 2        \* threads that call start_dfu
NumPollers == 1        \* threads that call get_progress
MaxCurrent == 2        \* the controller relays current in -1..MaxCurrent
MaxTotal   == 1        \* the controller relays total 0 or MaxTotal

Callers == 1..NumCallers
Pollers == 1..NumPollers

\* Thread identities, as held by _progress_lock.
NoThread      == <<"none", 0>>
CallerThread(c) == <<"caller", c>>
JobThread(c)    == <<"job", c>>
PollerThread(p) == <<"poller", p>>

\* ---------------------------------------------------------------- messages

\* "..." stands for the source's single character U+2026 (horizontal ellipsis).

MsgInitial    == ""
MsgStarting   == "Starting..."
MsgConnecting == "Connecting..."
MsgPerforming == "Performing DFU..."
MsgSuccess    == "DFU completed successfully."
MsgFailed     == "DFU failed."
ErrPrefix     == "Error: "

ErrNotInstalled ==
    "PlatformController is not installed. Add the package that provides it to requirements.txt (e.g. platform_controller or pyring)."
ErrAlreadyRunning == "DFU is already running."
ErrNoResult   == "DFU thread did not return."

\* str(e) of the exceptions the controller's operations raise.
ControllerErrors == {"ble timeout"}

\* What a call or a thread body ends with: a returned value or a raised error.
Returned(v) == <<"return", v>>
Raised(text) == <<"raise", text>>
PyTrue  == "True"
PyFalse == "False"

\* --------------------------------------------------------------- rounding

\* An optional percentage argument: None, or the number num/den.
None == <<"None">>
Number(num, den) == <<num, den>>

\* round(num/den, 1) in tenths, den > 0: the nearest tenth, a tie going to the
\* even one (Python rounds a float that is exactly half-way to even).
RoundTruncates(num, den) == (num * 10) \div den
round1(num, den) ==
    LET t == num * 10
        q == t \div den
        r == t % den
    IN  IF 2 * r < den THEN q
        ELSE IF 2 * r > den THEN q + 1
        ELSE IF q % 2 = 0 THEN q ELSE q + 1

\* The dict _set_progress binds to _progress.
Snapshot(current, total, message, tenths) ==
    [current |-> current, total |-> total, message |-> message,
     percentage |-> tenths]

\* _set_progress up to the lock: the percentage defaulting and the rounding.
set_progress_value(current, total, message, percentage) ==
    LET p == IF percentage = None /\ total > 0 THEN Number(current * 100, total)
             ELSE IF percentage = None THEN Number(0, 1)
             ELSE percentage
    IN  Snapshot(current, total, message, round1(p[1], p[2]))

\* progress_callback: the percentage it hands to _set_progress.
CallbackNoScale(current, total) ==
    IF total > 0 THEN Number(current, total) ELSE Number(0, 1)
CallbackPerMille(current, total) ==
    IF total > 0 THEN Number(current * 1000, total) ELSE Number(0, 1)
callback_percentage(current, total) ==
    IF total > 0 THEN Number(current * 100, total) ELSE Number(0, 1)

progress_callback(current, total, message) ==
    set_progress_value(current, total, message, callback_percentage(current, total))

InitialProgress  == Snapshot(0, 0, MsgInitial, 0)
StartingProgress == Snapshot(0, 0, MsgStarting, 0)
ConnectingProgress == set_progress_value(0, 0, MsgConnecting, None)
PerformingProgress == set_progress_value(0, 0, MsgPerforming, None)
SuccessProgressWrong == set_progress_value(100, 100, MsgSuccess, Number(0, 1))
SuccessProgress  == set_progress_value(100, 100, MsgSuccess, Number(100, 1))
FailedProgress   == set_progress_value(0, 0, MsgFailed, Number(0, 1))
ErrorProgressNoText(e) == set_progress_value(0, 0, ErrPrefix, Number(0, 1))
ErrorProgress(e) == set_progress_value(0, 0, ErrPrefix \o e, Number(0, 1))

\* The (current, total, message) events the controller may relay.
CallbackEvents ==
    {<<5, 10, "writing">>, <<2, 3, "verifying">>}
    \cup {<<cur, MaxTotal, "step">> : cur \in (-1)..MaxCurrent}
    \cup {<<1, 0, "step">>}

\* ------------------------------------------------------------------ state

VARIABLES
    PlatformController, \* TRUE: the import bound the class; FALSE: it is None
    _running,           \* DfuApi._running
    _progress,          \* DfuApi._progress
    _progress_lock,     \* the thread inside "with self._progress_lock", or NoThread
    pc,                 \* pc[c]: where caller c is in start_dfu
    job,                \* job[c]: where the thread started by c's call is in run()
    pending,            \* pending[c]: the dict a _set_progress call of job c is about to bind
    result,             \* result[c]: what run() of job c returns or raises
    result_holder,      \* result_holder[c]: the list run_and_capture appends to
    returned,           \* output: <<c, outcome>> in the state a start_dfu call of c ends in
    cfg,                \* cfg[c]: the dict load_config returned to job c
    config_json,        \* history: config_json[c]: the file the load_config call of job c read
    performs,           \* history: performs[c]: the perform_dfu calls made for c's call so far
    poll,               \* poll[p]: where poller p is in get_progress
    polled,             \* output: <<copy>> in the state a get_progress call ends in
    writer,             \* history: the caller whose call or job last bound _progress
    issued              \* history: the dict the last binding of _progress was given

vars == <<PlatformController, _running, _progress, _progress_lock, pc, job,
          pending, result, result_holder, returned, cfg, config_json, performs, poll, polled, writer,
          issued>>

NoOutcome == <<"none", "">>
NoReturn  == <<0, NoOutcome>>

\* returned and polled show what the step just taken handed back to a caller of the
\* API; a step that ends no call leaves them empty.
NoCallEnds == returned' = NoReturn /\ polled' = <<>>

Init ==
    /\ PlatformController \in BOOLEAN
    /\ _running = FALSE
    /\ _progress = InitialProgress
    /\ _progress_lock = NoThread
    /\ pc = [c \in Callers |-> "idle"]
    /\ job = [c \in Callers |-> "none"]
    /\ pending = [c \in Callers |-> <<>>]
    /\ result = [c \in Callers |-> NoOutcome]
    /\ result_holder = [c \in Callers |-> <<>>]
    /\ returned = NoReturn
    /\ cfg = [c \in Callers |-> <<>>]
    /\ config_json = [c \in Callers |-> <<>>]
    /\ performs = [c \in Callers |-> 0]
    /\ poll = [p \in Pollers |-> "idle"]
    /\ polled = <<>>
    /\ writer = 0
    /\ issued = InitialProgress

\* ------------------------------------------------------------------- lock

\* "with self._progress_lock" blocks until no thread holds the lock.
AcquireUnguarded(t) == TRUE
CanAcquire(t) == _progress_lock = NoThread

\* The holder of the lock once thread t leaves its with-block.
ReleaseKeepsLock(t) == t
Released(t) == NoThread

\* self._progress = {...}: the name is bound to the new dict as a whole.
BindMergesFields(old, new) == [new EXCEPT !.percentage = old.percentage]
BindDropsWrite(old, new) == old
Bind(old, new) == new

\* -------------------------------------------------------------- get_progress

GetProgressEnter(p) ==
    /\ poll[p] = "idle"
    /\ CanAcquire(PollerThread(p))
    /\ _progress_lock' = PollerThread(p)
    /\ poll' = [poll EXCEPT ![p] = "locked"]
    /\ NoCallEnds
    /\ UNCHANGED <<PlatformController, _running, _progress, pc, job, pending,
                   result, result_holder, cfg, config_json, performs, writer, issued>>

\* "return dict(self._progress)", leaving the with-block
GetProgressReturn(p) ==
    /\ poll[p] = "locked"
    /\ polled' = <<_progress>>
    /\ returned' = NoReturn
    /\ poll' = [poll EXCEPT ![p] = "idle"]
    /\ _progress_lock' = Released(PollerThread(p))
    /\ UNCHANGED <<PlatformController, _running, _progress, pc, job, pending,
                   result, result_holder, cfg, config_json, performs, writer, issued>>

\* ----------------------------------------------------- start_dfu, the caller

\* "if PlatformController is None"
ControllerCheckSkipped == FALSE
ControllerMissing == ~PlatformController

\* "if self._running"
AdmissionNeverRefused(running) == FALSE
AdmissionRefused(running) == running

\* The call, up to the with-block: the dependency check.
StartDfu(c) ==
    /\ pc[c] = "idle"
    /\ IF ControllerMissing
       THEN /\ returned' = <<c, Raised(ErrNotInstalled)>>
            /\ pc' = pc
       ELSE /\ returned' = NoReturn
            /\ pc' = [pc EXCEPT ![c] = "lock"]
    /\ polled' = <<>>
    /\ UNCHANGED <<PlatformController, _running, _progress, _progress_lock, job,
                   pending, result, result_holder, cfg, config_json, performs, poll, writer, issued>>

\* "with self._progress_lock:" of the admission
AdmitEnter(c) ==
    /\ pc[c] = "lock"
    /\ CanAcquire(CallerThread(c))
    /\ _progress_lock' = CallerThread(c)
    /\ pc' = [pc EXCEPT ![c] = "check"]
    /\ NoCallEnds
    /\ UNCHANGED <<PlatformController, _running, _progress, job, pending, result,
                   result_holder, cfg, config_json, performs, poll, writer, issued>>

\* "if self._running: raise RuntimeError(...)": the raise leaves the with-block
AdmitCheck(c) ==
    /\ pc[c] = "check"
    /\ IF AdmissionRefused(_running)
       THEN /\ returned' = <<c, Raised(ErrAlreadyRunning)>>
            /\ pc' = [pc EXCEPT ![c] = "idle"]
            /\ _progress_lock' = Released(CallerThread(c))
       ELSE /\ pc' = [pc EXCEPT ![c] = "set"]
            /\ returned' = NoReturn
            /\ UNCHANGED _progress_lock
    /\ polled' = <<>>
    /\ UNCHANGED <<PlatformController, _running, _progress, job, pending, result,
                   result_holder, cfg, config_json, performs, poll, writer, issued>>

\* "self._running = True; self._progress = {...Starting...}", leaving the with-block
AdmitSet(c) ==
    /\ pc[c] = "set"
    /\ _running' = TRUE
    /\ _progress' = Bind(_progress, StartingProgress)
    /\ issued' = StartingProgress
    /\ writer' = c
    /\ _progress_lock' = Released(CallerThread(c))
    /\ pc' = [pc EXCEPT ![c] = "spawn"]
    /\ NoCallEnds
    /\ UNCHANGED <<PlatformController, job, pending, result, result_holder, cfg, config_json, performs, poll>>

\* result_holder = []; thread = threading.Thread(...); thread.start()
ThreadStart(c) ==
    /\ pc[c] = "spawn"
    /\ job' = [job EXCEPT ![c] = "connecting"]
    /\ result_holder' = [result_holder EXCEPT ![c] = <<>>]
    /\ pc' = [pc EXCEPT ![c] = "join"]
    /\ NoCallEnds
    /\ UNCHANGED <<PlatformController, _running, _progress, _progress_lock,
                   pending, result, cfg, config_json, performs, poll, writer, issued>>

\* What start_dfu ends with, given the list the thread left.
start_dfu_outcome(holder) ==
    IF holder # <<>> THEN holder[1] ELSE Raised(ErrNoResult)

\* thread.join() returns once the thread has ended; then "if result_holder: ...
\* raise r / return r", else the RuntimeError
JoinAndReturn(c) ==
    /\ pc[c] = "join"
    /\ job[c] = "done"
    /\ job' = [job EXCEPT ![c] = "none"]
    /\ returned' = <<c, start_dfu_outcome(result_holder[c])>>
    /\ polled' = <<>>
    /\ result_holder' = [result_holder EXCEPT ![c] = <<>>]
    /\ pc' = [pc EXCEPT ![c] = "idle"]
    /\ performs' = [performs EXCEPT ![c] = 0]
    /\ UNCHANGED <<PlatformController, _running, _progress, _progress_lock,
                   pending, result, cfg, config_json, poll, writer, issued>>

\* ---------------------------------------------------------------- load_config

DEFAULT_ADVANCED ==
    [app_id |-> 1, start_address |-> 0, block_size |-> 512, ring_type |-> 8,
     force_flags |-> 0, reboot_wait |-> 10]

\* Keys a persisted object may hold, and the value it holds for each.
PersistedKeys == {"app_id", "reboot_wait", "bogus"}
PersistedValue(k) ==
    CASE k = "app_id" -> 7
      [] k = "reboot_wait" -> 30
      [] OTHER -> 99

\* A JSON document as json.load returns it: <<type, payload>>. A string's payload
\* is the set of recognized keys that occur in it as substrings, which is all
\* that "key in data" reads of a str.
JsonValues ==
    {<<"object", [k \in S |-> PersistedValue(k)]>> : S \in SUBSET PersistedKeys}
    \cup {<<"number", 5>>, <<"null", 0>>,
          <<"string", {}>>, <<"string", {"app_id"}>>,
          <<"list", <<>> >>, <<"list", <<"app_id">> >>}

\* config.json: absent, not openable (OSError), bytes that are not UTF-8
\* (UnicodeDecodeError), text that is not JSON (JSONDecodeError), or a document.
ConfigFiles ==
    {<<"absent", 0>>, <<"unreadable", 0>>, <<"undecodable", 0>>, <<"invalid", 0>>}
    \cup {<<"json", v>> : v \in JsonValues}

\* "key in data" for a value json.load returned: <<raises, holds>>.
key_in(key, data) ==
    CASE data[1] = "object" -> <<FALSE, key \in DOMAIN data[2]>>
      [] data[1] = "list"   -> <<FALSE, \E i \in 1..Len(data[2]) : data[2][i] = key>>
      [] data[1] = "string" -> <<FALSE, key \in data[2]>>
      [] OTHER              -> <<TRUE, FALSE>>

ErrNotIterable == "argument of type is not iterable"
ErrBadIndex    == "indices must be integers"
ErrDecode      == "codec can't decode byte"

\* The merge loop over DEFAULT_ADVANCED: the first failing step raises a TypeError,
\* which "except (json.JSONDecodeError, OSError)" does not catch.
MergeAllKeys(data) ==
    IF data[1] # "object" THEN Raised(ErrNotIterable)
    ELSE Returned([k \in DOMAIN DEFAULT_ADVANCED \cup DOMAIN data[2] |->
                     IF k \in DOMAIN data[2] THEN data[2][k] ELSE DEFAULT_ADVANCED[k]])
merge_keys(data) ==
    IF \E k \in DOMAIN DEFAULT_ADVANCED : key_in(k, data)[1]
    THEN Raised(ErrNotIterable)
    ELSE IF data[1] # "object" /\ \E k \in DOMAIN DEFAULT_ADVANCED : key_in(k, data)[2]
    THEN Raised(ErrBadIndex)
    ELSE Returned([k \in DOMAIN DEFAULT_ADVANCED |->
                     IF key_in(k, data)[2] THEN data[2][k] ELSE DEFAULT_ADVANCED[k]])

load_config(file) ==
    CASE file[1] = "absent"      -> Returned(DEFAULT_ADVANCED)
      [] file[1] = "unreadable"  -> Returned(DEFAULT_ADVANCED)
      [] file[1] = "invalid"     -> Returned(DEFAULT_ADVANCED)
      [] file[1] = "undecodable" -> Raised(ErrDecode)
      [] OTHER                   -> merge_keys(file[2])

\* ------------------------------------------------- _set_progress, in the job

\* A step of run() is taken only outside _set_progress.
WriteDeferred(c) == TRUE
Outside(c) == pending[c] = <<>>

\* "with self._progress_lock:" of _set_progress
SetProgressEnter(c) ==
    /\ pending[c] # <<>>
    /\ _progress_lock # JobThread(c)
    /\ CanAcquire(JobThread(c))
    /\ _progress_lock' = JobThread(c)
    /\ NoCallEnds
    /\ UNCHANGED <<PlatformController, _running, _progress, pc, job, pending,
                   result, result_holder, cfg, config_json, performs, poll, writer, issued>>

\* "self._progress = {...}", leaving the with-block
SetProgressBind(c) ==
    /\ pending[c] # <<>>
    /\ _progress_lock = JobThread(c)
    /\ _progress' = Bind(_progress, pending[c][1])
    /\ issued' = pending[c][1]
    /\ writer' = c
    /\ pending' = [pending EXCEPT ![c] = <<>>]
    /\ _progress_lock' = Released(JobThread(c))
    /\ NoCallEnds
    /\ UNCHANGED <<PlatformController, _running, pc, job, result, result_holder,
                   cfg, config_json, performs, poll>>

\* ------------------------------------------------------------------ run()

\* run() moves on to the statement at "to", calling _set_progress(snap) if any.
Goes(c, to, snap) ==
    /\ job' = [job EXCEPT ![c] = to]
    /\ pending' = [pending EXCEPT ![c] = snap]
    /\ NoCallEnds
    /\ UNCHANGED <<PlatformController, _running, _progress, _progress_lock, pc,
                   result, result_holder, cfg, config_json, performs, poll, writer,
                   issued>>

\* A statement of the try block raises e: control goes to the except clause.
Raises(c, e) ==
    /\ job' = [job EXCEPT ![c] = "except"]
    /\ result' = [result EXCEPT ![c] = Raised(e)]
    /\ NoCallEnds
    /\ UNCHANGED <<PlatformController, _running, _progress, _progress_lock, pc,
                   pending, result_holder, cfg, config_json, performs, poll, writer,
                   issued>>

\* self._set_progress(0, 0, "Connecting...")
ConnectingThenLoadConfig(c) ==
    /\ job[c] = "connecting"
    /\ Outside(c)
    /\ Goes(c, "load_config", <<ConnectingProgress>>)
Connecting(c) ==
    /\ job[c] = "connecting"
    /\ Outside(c)
    /\ Goes(c, "construct", <<ConnectingProgress>>)

\* pc = PlatformController(hw_id=hw_id, client_type="ble")
Construct(c) ==
    /\ job[c] = "construct"
    /\ Outside(c)
    /\ \/ Goes(c, "configure", <<>>)
       \/ \E e \in ControllerErrors : Raises(c, e)

\* pc.configure(target_name=target_name, timeout=int(timeout))
Configure(c) ==
    /\ job[c] = "configure"
    /\ Outside(c)
    /\ \/ Goes(c, "set_callback", <<>>)
       \/ \E e \in ControllerErrors : Raises(c, e)

\* pc.dfu.set_progress_callback(progress_callback)
SetCallback(c) ==
    /\ job[c] = "set_callback"
    /\ Outside(c)
    /\ \/ Goes(c, "performing", <<>>)
       \/ \E e \in ControllerErrors : Raises(c, e)

\* self._set_progress(0, 0, "Performing DFU...")
Performing(c) ==
    /\ job[c] = "performing"
    /\ Outside(c)
    /\ Goes(c, "load_config", <<PerformingProgress>>)

\* cfg = load_config(), config.json being whatever it is at that moment
LoadConfig(c) ==
    /\ job[c] = "load_config"
    /\ Outside(c)
    /\ \E file \in ConfigFiles :
         /\ LET out == load_config(file)
            IN  IF out[1] = "raise"
                THEN /\ job' = [job EXCEPT ![c] = "except"]
                     /\ result' = [result EXCEPT ![c] = out]
                     /\ cfg' = cfg
                ELSE /\ job' = [job EXCEPT ![c] = "call_perform"]
                     /\ cfg' = [cfg EXCEPT ![c] = <<out[2]>>]
                     /\ result' = result
         /\ config_json' = [config_json EXCEPT ![c] = <<file>>]
    /\ NoCallEnds
    /\ UNCHANGED <<PlatformController, _running, _progress, _progress_lock, pc,
                   pending, result_holder, performs, poll, writer, issued>>

\* pc.dfu.perform_dfu(firmware_path=..., app_id=cfg["app_id"], ...) is entered
CallPerform(c) ==
    /\ job[c] = "call_perform"
    /\ Outside(c)
    /\ job' = [job EXCEPT ![c] = "perform_dfu"]
    /\ cfg' = [cfg EXCEPT ![c] = <<>>]
    /\ config_json' = [config_json EXCEPT ![c] = <<>>]
    /\ performs' = [performs EXCEPT ![c] = @ + 1]
    /\ NoCallEnds
    /\ UNCHANGED <<PlatformController, _running, _progress, _progress_lock, pc,
                   pending, result, result_holder, poll, writer, issued>>

\* inside perform_dfu the controller calls progress_callback(current, total, message)
Callback(c) ==
    /\ job[c] = "perform_dfu"
    /\ Outside(c)
    /\ \E ev \in CallbackEvents :
         Goes(c, "perform_dfu", <<progress_callback(ev[1], ev[2], ev[3])>>)

\* perform_dfu returns success
PerformReturns(c) ==
    /\ job[c] = "perform_dfu"
    /\ Outside(c)
    /\ \E success \in {PyTrue, PyFalse} :
         result' = [result EXCEPT ![c] = Returned(success)]
    /\ job' = [job EXCEPT ![c] = "outcome"]
    /\ NoCallEnds
    /\ UNCHANGED <<PlatformController, _running, _progress, _progress_lock, pc,
                   pending, result_holder, cfg, config_json, performs, poll, writer,
                   issued>>

\* perform_dfu raises
PerformRaises(c) ==
    /\ job[c] = "perform_dfu"
    /\ Outside(c)
    /\ \E e \in ControllerErrors : Raises(c, e)

\* "if success: ... else: ..." and "return success"
TerminalLeftOut(success) ==
    IF success = PyTrue THEN SuccessProgress ELSE PerformingProgress
terminal_progress(success) ==
    IF success = PyTrue THEN SuccessProgress ELSE FailedProgress

Outcome(c) ==
    /\ job[c] = "outcome"
    /\ Outside(c)
    /\ Goes(c, "finally", <<terminal_progress(result[c][2])>>)

\* except Exception as e: self._set_progress(0, 0, f"Error: {e}", 0.0); raise
ExceptRetries(c) ==
    /\ job[c] = "except"
    /\ Outside(c)
    /\ job' = [job EXCEPT ![c] = IF performs[c] > 0 THEN "load_config" ELSE "finally"]
    /\ pending' = [pending EXCEPT ![c] = <<ErrorProgress(result[c][2])>>]
    /\ config_json' = [config_json EXCEPT ![c] = <<>>]
    /\ NoCallEnds
    /\ UNCHANGED <<PlatformController, _running, _progress, _progress_lock, pc,
                   result, result_holder, cfg, performs, poll, writer, issued>>
Except(c) ==
    /\ job[c] = "except"
    /\ Outside(c)
    /\ job' = [job EXCEPT ![c] = "finally"]
    /\ pending' = [pending EXCEPT ![c] = <<ErrorProgress(result[c][2])>>]
    /\ config_json' = [config_json EXCEPT ![c] = <<>>]
    /\ NoCallEnds
    /\ UNCHANGED <<PlatformController, _running, _progress, _progress_lock, pc,
                   result, result_holder, cfg, performs, poll, writer, issued>>

\* finally: "with self._progress_lock:"
FinallyEnter(c) ==
    /\ job[c] = "finally"
    /\ Outside(c)
    /\ CanAcquire(JobThread(c))
    /\ _progress_lock' = JobThread(c)
    /\ job' = [job EXCEPT ![c] = "clear"]
    /\ NoCallEnds
    /\ UNCHANGED <<PlatformController, _running, _progress, pc, pending, result,
                   result_holder, cfg, config_json, performs, poll, writer, issued>>

\* _running after the finally clause, given what the try block ended with.
ClearsOnlyOnReturn(running, outcome) == IF outcome[1] = "raise" THEN running ELSE FALSE
running_after_finally(running, outcome) == FALSE

\* "self._running = False", leaving the with-block
FinallyClear(c) ==
    /\ job[c] = "clear"
    /\ _running' = running_after_finally(_running, result[c])
    /\ _progress_lock' = Released(JobThread(c))
    /\ job' = [job EXCEPT ![c] = "capture"]
    /\ NoCallEnds
    /\ UNCHANGED <<PlatformController, _progress, pc, pending, result,
                   result_holder, cfg, config_json, performs, poll, writer, issued>>

\* run_and_capture: result_holder.append(run()), or .append(e); the thread ends
Capture(c) ==
    /\ job[c] = "capture"
    /\ result_holder' = [result_holder EXCEPT ![c] = Append(@, result[c])]
    /\ result' = [result EXCEPT ![c] = NoOutcome]
    /\ job' = [job EXCEPT ![c] = "done"]
    /\ NoCallEnds
    /\ UNCHANGED <<PlatformController, _running, _progress, _progress_lock, pc,
                   pending, cfg, config_json, performs, poll, writer, issued>>

\* ------------------------------------------------------------ specification

Next ==
    \/ \E p \in Pollers : GetProgressEnter(p)
    \/ \E p \in Pollers : GetProgressReturn(p)
    \/ \E c \in Callers : StartDfu(c)
    \/ \E c \in Callers : AdmitEnter(c)
    \/ \E c \in Callers : AdmitCheck(c)
    \/ \E c \in Callers : AdmitSet(c)
    \/ \E c \in Callers : ThreadStart(c)
    \/ \E c \in Callers : JoinAndReturn(c)
    \/ \E c \in Callers : SetProgressEnter(c)
    \/ \E c \in Callers : SetProgressBind(c)
    \/ \E c \in Callers : Connecting(c)
    \/ \E c \in Callers : Construct(c)
    \/ \E c \in Callers : Configure(c)
    \/ \E c \in Callers : SetCallback(c)
    \/ \E c \in Callers : Performing(c)
    \/ \E c \in Callers : LoadConfig(c)
    \/ \E c \in Callers : CallPerform(c)
    \/ \E c \in Callers : Callback(c)
    \/ \E c \in Callers : PerformReturns(c)
    \/ \E c \in Callers : PerformRaises(c)
    \/ \E c \in Callers : Outcome(c)
    \/ \E c \in Callers : Except(c)
    \/ \E c \in Callers : FinallyEnter(c)
    \/ \E c \in Callers : FinallyClear(c)
    \/ \E c \in Callers : Capture(c)

Spec == Init /\ [][Next]_vars

\* The steps of the thread of job c that are not a relay from the controller.
JobProgress(c) ==
    \/ SetProgressEnter(c) \/ SetProgressBind(c)
    \/ Connecting(c) \/ Construct(c) \/ Configure(c) \/ SetCallback(c)
    \/ Performing(c) \/ LoadConfig(c) \/ CallPerform(c)
    \/ PerformReturns(c) \/ PerformRaises(c)
    \/ Outcome(c) \/ Except(c)
    \/ FinallyEnter(c) \/ FinallyClear(c) \/ Capture(c)

\* The steps of a start_dfu call once it has been made.
CallerProgress(c) ==
    AdmitEnter(c) \/ AdmitCheck(c) \/ AdmitSet(c) \/ ThreadStart(c) \/ JoinAndReturn(c)

\* Threads are scheduled fairly: a thread that can take its next step, or that
\* waits for a lock that is free again and again, takes it; perform_dfu, which
\* may relay progress any number of times, ends; a get_progress call that holds
\* the lock returns. Whether and when start_dfu and get_progress are called is
\* up to their callers.
Fairness ==
    /\ \A c \in Callers : SF_vars(JobProgress(c))
    /\ \A c \in Callers : SF_vars(PerformReturns(c) \/ PerformRaises(c))
    /\ \A c \in Callers : SF_vars(CallerProgress(c))
    /\ \A p \in Pollers : WF_vars(GetProgressReturn(p))

FairSpec == Init /\ [][Next]_vars /\ Fairness

\* ------------------------------------------------------------------ claims

\* The call of c has been admitted and its job has not yet cleared _running:
\* from the admission's "self._running = True" to the finally's
\* "self._running = False".
JobActive(c) ==
    \/ pc[c] = "spawn"
    \/ pc[c] = "join" /\ job[c] \notin {"capture", "done"}

\* The call of c is inside start_dfu past its admission.
Admitted(c) == pc[c] \in {"spawn", "join"}

\* The outcome came from the job of an admitted call.
FromJob(outcome) ==
    /\ outcome # NoOutcome
    /\ outcome # Raised(ErrAlreadyRunning)
    /\ outcome # Raised(ErrNotInstalled)

\* C1: single-flight. In every reachable state at most one admitted job exists,
\* and _running is set exactly while one does.
C1_SingleFlight ==
    /\ Cardinality({c \in Callers : JobActive(c)}) <= 1
    /\ _running <=> \E c \in Callers : JobActive(c)

\* C1 witness: one job is inside perform_dfu while another caller is in the
\* admission's with-block.
C1_Witness ==
    \E c, d \in Callers :
        /\ c # d
        /\ job[c] = "perform_dfu"
        /\ pc[d] = "check"

\* C2 as stated: of two start_dfu calls in progress at the same time, only one
\* is ever admitted.
C2_ExactlyOneOfTwoAdmitted ==
    \A c, d \in Callers : c # d => ~(Admitted(c) /\ Admitted(d))

\* C2 as amended: a call whose admission check reads _running as True ends with
\* "DFU is already running." and a call whose check reads False goes on to be
\* admitted; _running goes from True to False only in the finally clause of the
\* one active job, after which no job is active.
C2_AdmissionByFlag ==
    [][/\ \A c \in Callers :
            (pc[c] = "check" /\ pc'[c] # "check") =>
                IF _running
                THEN pc'[c] = "idle" /\ returned' = <<c, Raised(ErrAlreadyRunning)>>
                ELSE pc'[c] = "set" /\ returned' = NoReturn
       /\ (_running /\ ~_running') =>
            /\ \E c \in Callers : job[c] = "clear" /\ job'[c] = "capture"
            /\ \A c \in Callers : ~JobActive(c)']_vars

\* C2 witness: a call is refused while the job of another call is active.
C2_Witness ==
    \E c, d \in Callers :
        /\ c # d
        /\ JobActive(c)
        /\ returned = <<d, Raised(ErrAlreadyRunning)>>

\* C3: when an admitted start_dfu call returns or raises, its thread has ended
\* and its job has cleared _running: if _running is set in that state, it was
\* set again by the admission of another call.
C3_IdleBeforeReturn ==
    \A c \in Callers :
        (returned[1] = c /\ FromJob(returned[2])) =>
            /\ job[c] = "none"
            /\ ~JobActive(c)
            /\ _running => \E d \in Callers \ {c} : JobActive(d)

\* C3 witness: start_dfu raises the controller's error with _running False.
C3_Witness ==
    \E c \in Callers, e \in ControllerErrors :
        /\ returned = <<c, Raised(e)>>
        /\ ~_running

\* C4: with PlatformController None every start_dfu call ends at once with the
\* not-installed error, and no step changes _running, _progress or any thread.
C4_UnavailableLeavesState ==
    [][~PlatformController =>
         /\ UNCHANGED <<_running, _progress, pc, job, pending, result,
                        result_holder, cfg, config_json, performs, writer, issued>>
         /\ returned' \in {NoReturn} \cup
                {<<c, Raised(ErrNotInstalled)>> : c \in Callers}
         /\ \A c \in Callers : pc[c] = "idle"]_vars

\* C4 witness: a call ended with the not-installed error.
C4_Witness ==
    /\ ~PlatformController
    /\ \E c \in Callers : returned = <<c, Raised(ErrNotInstalled)>>
    /\ ~_running
    /\ _progress = InitialProgress

\* C5: the admission check of a call that reads _running as True ends the call
\* with "DFU is already running." and changes nothing else: _running, the
\* snapshot, every thread and every job stay as they were.
C5_RefusalChangesNothing ==
    [][\A c \in Callers :
         (pc[c] = "check" /\ pc'[c] # "check" /\ _running) =>
            /\ returned' = <<c, Raised(ErrAlreadyRunning)>>
            /\ pc' = [pc EXCEPT ![c] = "idle"]
            /\ _progress_lock' = NoThread
            /\ UNCHANGED <<_running, _progress, job, pending, result,
                           result_holder, cfg, config_json, performs, writer, issued>>]_vars

\* C5 witness: a call was refused while the running job's relayed snapshot
\* stands.
C5_Witness ==
    \E c \in Callers :
        /\ returned = <<c, Raised(ErrAlreadyRunning)>>
        /\ _running
        /\ _progress.message = "writing"

\* C6: when a step of an admitted job raises e, the last snapshot the job binds
\* is {0, 0, "Error: " + str(e), 0.0}; start_dfu raises that same e; and once
\* the call has ended _running is False unless another call was admitted since,
\* so that a later start_dfu is admitted.
C6_ErrorOutcome ==
    \A c \in Callers :
        /\ (job[c] \in {"clear", "capture"} /\ result[c][1] = "raise" /\ writer = c) =>
              _progress = [current |-> 0, total |-> 0,
                           message |-> "Error: " \o result[c][2], percentage |-> 0]
        /\ (job[c] = "done" /\ writer = c /\ result_holder[c][1][1] = "raise") =>
              _progress.message = "Error: " \o result_holder[c][1][2]
        /\ (returned[1] = c /\ FromJob(returned[2]) /\ returned[2][1] = "raise") =>
              /\ writer = c =>
                    _progress = [current |-> 0, total |-> 0,
                                 message |-> "Error: " \o returned[2][2],
                                 percentage |-> 0]
              /\ (\A d \in Callers : ~JobActive(d)) => ~_running

\* C6 witness: perform_dfu raised, start_dfu raised the same text, the snapshot
\* carries it, and _running is False again.
C6_Witness ==
    \E c \in Callers :
        /\ returned = <<c, Raised("ble timeout")>>
        /\ _progress = [current |-> 0, total |-> 0,
                        message |-> "Error: ble timeout", percentage |-> 0]
        /\ ~_running

\* The snapshot the claim names for each value perform_dfu returns.
C7_Terminal(v) ==
    IF v = PyTrue
    THEN [current |-> 100, total |-> 100,
          message |-> "DFU completed successfully.", percentage |-> 1000]
    ELSE [current |-> 0, total |-> 0, message |-> "DFU failed.", percentage |-> 0]

\* C7: when perform_dfu returns true (false), the last snapshot the job binds is
\* the success (failure) snapshot, start_dfu returns that value without raising,
\* and a get_progress call hands back the stored snapshot as it stands.
C7_TerminalOutcome ==
    /\ \A c \in Callers : \A v \in {PyTrue, PyFalse} :
        /\ (job[c] \in {"clear", "capture"} /\ result[c] = Returned(v) /\ writer = c) =>
              _progress = C7_Terminal(v)
        /\ (job[c] = "done" /\ writer = c /\ result_holder[c] = <<Returned(v)>>) =>
              _progress = C7_Terminal(v)
        /\ (returned = <<c, Returned(v)>> /\ writer = c) =>
              _progress = C7_Terminal(v)
    /\ polled # <<>> => polled = <<_progress>>

\* C7 witness: start_dfu returned False and the failure snapshot stands.
C7_Witness ==
    \E c \in Callers :
        /\ returned = <<c, Returned(PyFalse)>>
        /\ _progress = C7_Terminal(PyFalse)

\* C7, the other outcome: start_dfu returned True and the success snapshot stands.
C7_WitnessSuccess ==
    \E c \in Callers :
        /\ returned = <<c, Returned(PyTrue)>>
        /\ _progress = C7_Terminal(PyTrue)

\* C8: the dict a get_progress call returns is, field for field, the dict one
\* single binding of _progress was given: the latest one.
C8_WholeSnapshot ==
    polled # <<>> => polled[1] = issued

\* C8 witness: get_progress returned a relayed snapshot while the job was
\* already inside the next _set_progress call.
C8_Witness ==
    /\ polled # <<>>
    /\ polled[1].message = "verifying"
    /\ \E c \in Callers : pending[c] # <<>> /\ pending[c][1] # polled[1]

\* The statements of run() that are calls into the controller.
ControllerCalls == {"construct", "configure", "set_callback", "call_perform", "perform_dfu"}

\* C9: the lock is held only inside the short with-blocks. A job that is in a
\* controller call (and not in a _set_progress call a relay made) does not hold
\* it, nor does a caller that starts or joins its thread; and whoever holds it
\* can take its next step, so get_progress is never kept waiting by the job.
C9_LockNotHeldAcrossCalls ==
    /\ \A c \in Callers :
        /\ (job[c] \in ControllerCalls /\ Outside(c)) => _progress_lock # JobThread(c)
        /\ pc[c] \in {"spawn", "join"} => _progress_lock # CallerThread(c)
        /\ _progress_lock = JobThread(c) =>
              ENABLED (SetProgressBind(c) \/ FinallyClear(c))
        /\ _progress_lock = CallerThread(c) =>
              ENABLED (AdmitCheck(c) \/ AdmitSet(c))
    /\ \A p \in Pollers :
        _progress_lock = PollerThread(p) => ENABLED GetProgressReturn(p)
    /\ (_progress_lock = NoThread /\ \E p \in Pollers : poll[p] = "idle") =>
          \E p \in Pollers : ENABLED GetProgressEnter(p)

\* C9 witness: a poller is inside get_progress's with-block while the job is
\* inside perform_dfu and start_dfu is joining.
C9_Witness ==
    \E c \in Callers, p \in Pollers :
        /\ job[c] = "perform_dfu"
        /\ pc[c] = "join"
        /\ Outside(c)
        /\ _progress_lock = PollerThread(p)

\* The stored percentage p (in tenths) is current/total*100 rounded to one
\* decimal: no further than half a tenth from it.
NearestTenth(snap) ==
    LET d == snap.percentage * snap.total - snap.current * 1000
    IN  2 * d <= snap.total /\ 2 * d >= -snap.total

\* C10: after every write the stored percentage is round(current/total*100, 1)
\* when total > 0 and 0.0 otherwise; the relay of (5, 10, "writing") is polled as
\* {5, 10, "writing", 50.0}.
C10_Percentage ==
    /\ _progress.total > 0 => NearestTenth(_progress)
    /\ _progress.total <= 0 => _progress.percentage = 0
    /\ \A s \in {_progress} \cup {polled[i] : i \in 1..Len(polled)} :
          s.message = "writing" =>
              s = [current |-> 5, total |-> 10, message |-> "writing",
                   percentage |-> 500]

\* C10 witness: the relay of (5, 10, "writing") was polled.
C10_Witness ==
    polled = <<[current |-> 5, total |-> 10, message |-> "writing",
                percentage |-> 500]>>

\* C10, a value that needs rounding up: the relay of (2, 3, "verifying") is
\* stored at 66.7.
C10_WitnessRounded ==
    _progress = [current |-> 2, total |-> 3, message |-> "verifying",
                 percentage |-> 667]

\* The six settings and their built-in values, as the claims name them.
RecognizedKeys ==
    {"app_id", "start_address", "block_size", "ring_type", "force_flags", "reboot_wait"}
BuiltInValue(k) ==
    CASE k = "app_id" -> 1
      [] k = "start_address" -> 0
      [] k = "block_size" -> 512
      [] k = "ring_type" -> 8
      [] k = "force_flags" -> 0
      [] k = "reboot_wait" -> 10

\* C11: when config.json holds a key/value object, the dict load_config returns
\* has exactly the six recognized keys; a recognized key the object holds takes
\* the object's value, every other recognized key takes its built-in value, and
\* no unknown key of the object appears.
C11_MergePolicy ==
    \A c \in Callers :
        (/\ config_json[c] # <<>>
         /\ config_json[c][1][1] = "json"
         /\ config_json[c][1][2][1] = "object") =>
            LET data == config_json[c][1][2][2]
            IN  /\ job[c] = "call_perform"
                /\ cfg[c] # <<>>
                /\ DOMAIN cfg[c][1] = RecognizedKeys
                /\ \A k \in RecognizedKeys :
                      cfg[c][1][k] = IF k \in DOMAIN data THEN data[k]
                                     ELSE BuiltInValue(k)
                /\ \A k \in DOMAIN data \ RecognizedKeys : k \notin DOMAIN cfg[c][1]

\* C11 witness: the object held app_id and an unknown key; the dict takes its
\* app_id and the built-in reboot_wait.
C11_Witness ==
    \E c \in Callers :
        /\ config_json[c] = <<<<"json", <<"object", [app_id |-> 7, bogus |-> 99]>> >> >>
        /\ cfg[c] # <<>>
        /\ cfg[c][1].app_id = 7
        /\ cfg[c][1].reboot_wait = 10

\* C12: whatever state config.json is in, load_config raises nothing and returns
\* a dict with the six recognized keys, all at their built-in values unless the
\* file holds an object; so the job that called it goes on to perform_dfu.
C12_NeverSurfacesError ==
    \A c \in Callers :
        config_json[c] # <<>> =>
            /\ job[c] = "call_perform"
            /\ cfg[c] # <<>>
            /\ DOMAIN cfg[c][1] = RecognizedKeys
            /\ (config_json[c][1][1] = "json" /\ config_json[c][1][2][1] = "object")
                \/ \A k \in RecognizedKeys : cfg[c][1][k] = BuiltInValue(k)

\* C13: writes become visible in the order they are made, and a get_progress
\* call returns the latest of them. Each _set_progress call of a job and each
\* admission stores the dict it was given before its thread goes on; nothing
\* else changes the stored dict; no write lands while a get_progress call is in
\* its with-block; and the call returns the dict of the latest write. So a call
\* that starts after a write returns that write or a later one, and of two
\* calls one after the other the later never returns an earlier write.
C13_WriteOrderVisible ==
    [][/\ \A c \in Callers :
            /\ (pending[c] # <<>> /\ pending'[c] = <<>>) =>
                  _progress' = pending[c][1] /\ issued' = pending[c][1]
            /\ (pending[c] # <<>> /\ pending'[c] # <<>>) =>
                  pending'[c] = pending[c] /\ job'[c] = job[c]
            /\ (pc[c] = "set" /\ pc'[c] = "spawn") =>
                  _progress' = [current |-> 0, total |-> 0,
                                message |-> "Starting...", percentage |-> 0]
       /\ _progress' # _progress =>
            \E c \in Callers : \/ pending[c] # <<>> /\ pending'[c] = <<>>
                               \/ pc[c] = "set" /\ pc'[c] = "spawn"
       /\ \A p \in Pollers :
            /\ poll[p] = "locked" => _progress' = _progress /\ issued' = issued
            /\ (poll[p] = "locked" /\ poll'[p] = "idle") =>
                  polled' = <<issued>> /\ polled' = <<_progress'>>]_vars

\* C13 witness: while the job is between the "Performing DFU..." write and
\* perform_dfu, a get_progress call returned that write, not the earlier
\* "Connecting..." one.
C13_Witness ==
    \E c \in Callers :
        /\ job[c] \in {"load_config", "call_perform"}
        /\ Outside(c)
        /\ polled # <<>>
        /\ polled[1].message = "Performing DFU..."

\* C14 as stated: the job resolves the configuration right after the
\* "Connecting..." write: once the controller has been constructed, and when the
\* "Performing DFU..." write is issued, the job already holds its cfg.
C14_ConfigResolvedFirst ==
    \A c \in Callers :
        /\ job[c] \in {"configure", "set_callback", "performing"} => cfg[c] # <<>>
        /\ (job[c] = "load_config" /\ writer = c
               /\ _progress.message = "Performing DFU...") => cfg[c] # <<>>

\* C14 as amended: the job runs, in this order, the "Connecting..." write, the
\* construction of the controller, configure, set_progress_callback, the
\* "Performing DFU..." write, load_config and perform_dfu, each after the one
\* before has returned; any of the controller calls and load_config may raise
\* instead. The configuration is resolved only at load_config: after the
\* "Performing DFU..." write is stored and immediately before perform_dfu.
C14_JobOrder ==
    [][\A c \in Callers :
         /\ (job'[c] # job[c] /\ job[c] \in
                {"connecting", "construct", "configure", "set_callback",
                 "performing", "load_config", "call_perform"}) =>
              /\ pending[c] = <<>>
              /\ CASE job[c] = "connecting" ->
                        /\ job'[c] = "construct"
                        /\ pending'[c] = <<[current |-> 0, total |-> 0,
                                            message |-> "Connecting...",
                                            percentage |-> 0]>>
                   [] job[c] = "construct" -> job'[c] \in {"configure", "except"}
                   [] job[c] = "configure" -> job'[c] \in {"set_callback", "except"}
                   [] job[c] = "set_callback" -> job'[c] \in {"performing", "except"}
                   [] job[c] = "performing" ->
                        /\ job'[c] = "load_config"
                        /\ pending'[c] = <<[current |-> 0, total |-> 0,
                                            message |-> "Performing DFU...",
                                            percentage |-> 0]>>
                   [] job[c] = "load_config" ->
                        /\ job'[c] \in {"call_perform", "except"}
                        /\ writer = c
                        /\ _progress.message = "Performing DFU..."
                        /\ job'[c] = "call_perform" <=> cfg'[c] # <<>>
                   [] job[c] = "call_perform" ->
                        /\ job'[c] = "perform_dfu"
                        /\ cfg[c] # <<>>
         /\ (cfg'[c] # cfg[c] /\ cfg'[c] # <<>>) => job[c] = "load_config"
         /\ (job'[c] = "perform_dfu" /\ job[c] # "perform_dfu") =>
              job[c] = "call_perform"]_vars

\* C14 witness: the job holds the cfg it has just resolved, with its
\* "Performing DFU..." write already stored and perform_dfu not yet called.
C14_Witness ==
    \E c \in Callers :
        /\ job[c] = "call_perform"
        /\ cfg[c] # <<>>
        /\ writer = c
        /\ _progress.message = "Performing DFU..."

\* C15: no retries. For one start_dfu call perform_dfu is called at most once:
\* once when the call returns a value, and whenever the job got as far as
\* perform_dfu; not at all when the call is refused, when the controller is
\* missing, or when an earlier step of the job raised. After perform_dfu has
\* returned or raised, no step of that call calls it again.
C15_NoRetry ==
    [][\A c \in Callers :
         /\ performs'[c] <= 1
         /\ returned'[1] = c =>
              /\ returned'[2] \in {Raised("DFU is already running."),
                                   Raised(ErrNotInstalled)} =>
                    performs[c] = 0 /\ performs' = performs
              /\ returned'[2][1] = "return" => performs[c] = 1
         /\ job'[c] \in {"perform_dfu", "outcome"} => performs'[c] = 1
         /\ job'[c] \in {"connecting", "construct", "configure", "set_callback",
                          "performing", "load_config", "call_perform"} =>
              performs'[c] = 0
         /\ job[c] \in {"perform_dfu", "outcome", "except", "finally", "clear",
                         "capture", "done"} =>
              /\ performs'[c] <= performs[c]
              /\ job'[c] # "call_perform"]_vars

\* C15 witness: perform_dfu returned False, the job has ended and start_dfu is
\* about to return False, perform_dfu having been called once.
C15_Witness ==
    \E c \in Callers :
        /\ job[c] = "done"
        /\ result_holder[c] = <<Returned(PyFalse)>>
        /\ performs[c] = 1

\* C15, the error case: perform_dfu raised and was not called again.
C15_WitnessRaised ==
    \E c \in Callers :
        /\ job[c] = "done"
        /\ result_holder[c] = <<Raised("ble timeout")>>
        /\ performs[c] = 1

\* C16 as stated: in every reachable state the stored percentage lies between
\* 0.0 and 100.0, whatever events the controller relays.
C16_PercentageInRange ==
    _progress.percentage >= 0 /\ _progress.percentage <= 1000

\* C16 as amended: the stored percentage lies between 0.0 and 100.0 when the
\* stored total is not positive or the stored current lies between 0 and the
\* total; a relay with current below 0 is stored with a percentage not above
\* 0.0 and a relay with current above total with one not below 100.0, the
\* percentage following the counts as relayed.
C16_RangeFollowsCounts ==
    /\ _progress.total <= 0 => _progress.percentage = 0
    /\ (_progress.total > 0 /\ _progress.current >= 0
          /\ _progress.current <= _progress.total) =>
            _progress.percentage >= 0 /\ _progress.percentage <= 1000
    /\ (_progress.total > 0 /\ _progress.current < 0) => _progress.percentage <= 0
    /\ (_progress.total > 0 /\ _progress.current > _progress.total) =>
            _progress.percentage >= 1000

\* C16 witness: a relay with current equal to total is stored at 100.0.
C16_Witness ==
    /\ _progress.message = "step"
    /\ _progress.total > 0
    /\ _progress.current = _progress.total
    /\ _progress.percentage = 1000

\* C16, out of range below: the relay of (-1, 1, "step") is stored at -100.0.
C16_WitnessBelowZero ==
    _progress = [current |-> -1, total |-> 1, message |-> "step",
                 percentage |-> -1000]

\* C16, out of range above: the relay of (2, 1, "step") is stored at 200.0.
C16_WitnessAboveHundred ==
    _progress = [current |-> 2, total |-> 1, message |-> "step",
                 percentage |-> 2000]

\* The texts a job's error may carry: the controller's and load_config's.
ErrorTexts == ControllerErrors \cup {ErrNotIterable, ErrBadIndex, ErrDecode}

\* The snapshots the claim allows while no job runs: the initial one, or the
\* last one of a job that returned true, returned false or raised.
C17_AtRest(snap) ==
    \/ snap = [current |-> 0, total |-> 0, message |-> "", percentage |-> 0]
    \/ snap = [current |-> 100, total |-> 100,
               message |-> "DFU completed successfully.", percentage |-> 1000]
    \/ snap = [current |-> 0, total |-> 0, message |-> "DFU failed.",
               percentage |-> 0]
    \/ \E e \in ErrorTexts :
          snap = [current |-> 0, total |-> 0, message |-> "Error: " \o e,
                  percentage |-> 0]

\* C17: while _running is False the only step that changes the snapshot is an
\* admission, which sets _running and stores "Starting..."; so whenever
\* _running is False the snapshot is the initial one or a job's last one,
\* never "Starting...", "Connecting...", "Performing DFU..." or a relayed one.
C17_SnapshotAtRest ==
    /\ [](~_running => C17_AtRest(_progress))
    /\ [][(~_running /\ _progress' # _progress) =>
             /\ \E c \in Callers : pc[c] = "set" /\ pc'[c] = "spawn"
             /\ _running'
             /\ _progress'.message = "Starting..."]_vars

\* C17 witness: after a job that failed, with _running False and the failure
\* snapshot standing, a new call is inside its admission, about to store
\* "Starting...".
C17_Witness ==
    \E c \in Callers :
        /\ ~_running
        /\ pc[c] = "set"
        /\ _progress.message = "DFU failed."

\* C18: jobs do not overwrite each other's progress. From a call's admission
\* until its job clears _running, the stored snapshot, and so every snapshot a
\* get_progress call returns, was written by that admission or that job; a job
\* has stored its last snapshot before it enters the finally clause; and a job
\* that has cleared _running has no write left to make, so none of its writes
\* follows the "Starting..." of a later admission.
C18_OwnProgress ==
    \A c \in Callers :
        /\ JobActive(c) =>
              /\ writer = c
              /\ _progress = issued
              /\ polled # <<>> => polled[1] = issued
        /\ job[c] = "clear" =>
              /\ pending[c] = <<>>
              /\ C17_AtRest(_progress)
              /\ _running
        /\ pending[c] # <<>> => JobActive(c) /\ job[c] # "clear"
        /\ (writer = c /\ _progress.message = "Starting...") =>
              \A d \in Callers \ {c} : pending[d] = <<>> /\ ~JobActive(d)

\* C18 witness: a later call's "Starting..." stands while the thread of the
\* earlier job, which failed, has not ended yet.
C18_Witness ==
    \E c, d \in Callers :
        /\ c # d
        /\ job[d] = "capture"
        /\ result[d] = Returned(PyFalse)
        /\ JobActive(c)
        /\ writer = c
        /\ _progress.message = "Starting..."

\* C19: under fair scheduling, with every controller call ending, every
\* admitted start_dfu call returns or raises, _running goes back to False, and
\* the lock is always released again, whatever get_progress calls and refused
\* start_dfu calls are interleaved.
C19_AdmittedCallEnds ==
    /\ \A c \in Callers :
          Admitted(c) ~> (returned[1] = c /\ FromJob(returned[2]) /\ pc[c] = "idle")
    /\ _running ~> ~_running
    /\ (_progress_lock # NoThread) ~> (_progress_lock = NoThread)

\* C19 witness: a job at its finally clause waits for the lock, which a
\* get_progress call holds, while another call is waiting to be checked.
C19_Witness ==
    \E c, d \in Callers, p \in Pollers :
        /\ c # d
        /\ job[c] = "finally"
        /\ Outside(c)
        /\ _progress_lock = PollerThread(p)
        /\ pc[d] = "lock"

====
